---- MODULE Spec2Model ----
(***************************************************************************)
(* Model of flask_app/static/app.js: the sentence review widget.           *)
(*                                                                         *)
(* Strings are sequences of one-character strings.  The literal marker     *)
(* "[REDACT]" (eight characters, none of them whitespace) is carried as    *)
(* the single symbol "[REDACT]".  The child nodes of #editable-sentence    *)
(* are kept as the sequence of spans (tokens); the text node " " that      *)
(* follows every span is re-inserted by ChildText.  Sequences are 1-based: *)
(* the span at index p of tokens carries dataset.index = p - 1.            *)
(*                                                                         *)
(* The state is what the handlers read back: currentSentenceId, the two    *)
(* text surfaces, the spans with their click handlers, the undo stack and  *)
(* the edit box.  What they only write (alert, console, showFeedback, the  *)
(* debug fields) is fixed by the handler that ran and is read off lastOp.  *)
(***************************************************************************)
EXTENDS Integers, Sequences, FiniteSets, TLC

\* ------------------------------------------------------------------ bounds
MaxLen == 2          \* longest text typed into the edit box
MaxInFlight == 2     \* requests that may be in flight at once

\* ------------------------------------------------------------- text model
REDACT == <<"[REDACT]">>
Whitespace == {" ", "\t", "\n"}      \* what String.prototype.trim strips
TypedChar == {"a", " "}              \* characters typed into the edit box

RECURSIVE SeqsUpTo(_, _)
SeqsUpTo(S, n) ==
  IF n = 0 THEN {<<>>}
  ELSE LET shorter == SeqsUpTo(S, n - 1)
       IN shorter \cup {Append(s, c) : s \in shorter, c \in S}

TypedTexts == SeqsUpTo(TypedChar, MaxLen)

RECURSIVE TrimStart(_)
TrimStart(s) ==
  IF s # <<>> /\ Head(s) \in Whitespace THEN TrimStart(Tail(s)) ELSE s

RECURSIVE TrimEnd(_)
TrimEnd(s) ==
  IF s # <<>> /\ s[Len(s)] \in Whitespace
  THEN TrimEnd(SubSeq(s, 1, Len(s) - 1)) ELSE s

\* String.prototype.trim
Trim(s) == TrimEnd(TrimStart(s))

RECURSIVE SplitAcc(_, _)
SplitAcc(s, cur) ==
  IF s = <<>> THEN <<cur>>
  ELSE IF Head(s) = " " THEN <<cur>> \o SplitAcc(Tail(s), <<>>)
  ELSE SplitAcc(Tail(s), Append(cur, Head(s)))

\* a split that drops the empty segments.
SplitFiltered(text) ==
  LET NotEmpty(w) == w # <<>> IN SelectSeq(SplitAcc(text, <<>>), NotEmpty)

\* text.split(" "): empty segments are kept, "" splits into [""]
Split(text) == SplitAcc(text, <<>>)

\* The spans renderEditableSentence appends: textContent, the word its
\* click handler closes over, and whether onclick is set.
RenderTokens(text) ==
  LET words == Split(text)
  IN [i \in 1..Len(words) |->
        [text |-> words[i], word |-> words[i], onclick |-> TRUE]]

RECURSIVE ChildText(_)
\* childNodes.map(node => node.textContent).join("")
ChildText(toks) ==
  IF toks = <<>> THEN <<>>
  ELSE Head(toks).text \o <<" ">> \o ChildText(Tail(toks))

\* the text read back without the final trim.
CurrentTextUntrimmed(toks) == ChildText(toks)

\* editSentence: Array.from(childNodes).map(...).join("").trim()
CurrentText(toks) == Trim(ChildText(toks))

\* markGood: the same expression, written a second time in the source
FinalText(toks) == Trim(ChildText(toks))

\* ------------------------------------------------------- provider records
Null == -1                          \* the null of currentSentenceId
RecordIds == {0, 1}
Absent == [present |-> FALSE, value |-> <<>>]
Str(s) == [present |-> TRUE, value |-> s]

\* original_sentence of the record with a given id (immutable once fetched)
OriginalOf(id) ==
  IF id = 0 THEN <<"b", " ", "c">> ELSE <<" ", "c", "\t">>

LlmValues == {Absent, Str(<<>>), Str(<<"b", " ", " ", "c">>)}
FinalValues == {Absent, Str(<<>>), Str(<<"d", " ", "b">>)}

\* The provider keeps to its contract: a response with res.ok carries a
\* record whose original_sentence is a string, so the handler of a resolved
\* load runs to its end.
Records ==
  {[id |-> i, original_sentence |-> OriginalOf(i),
    llm_sentence |-> l, final_sentence |-> f] :
      i \in RecordIds, l \in LlmValues, f \in FinalValues}

\* JavaScript truthiness of an optional string field / of an id
Truthy(field) == field.present /\ field.value # <<>>
TruthyId(id) == id # Null /\ id # 0

\* A precedence that puts the candidate before the approved text.
EditableLlmFirst(data) ==
  IF Truthy(data.llm_sentence) THEN data.llm_sentence.value
  ELSE IF Truthy(data.final_sentence) THEN data.final_sentence.value
  ELSE data.original_sentence

\* data.final_sentence || data.llm_sentence || data.original_sentence
Editable(data) ==
  IF Truthy(data.final_sentence) THEN data.final_sentence.value
  ELSE IF Truthy(data.llm_sentence) THEN data.llm_sentence.value
  ELSE data.original_sentence

\* ------------------------------------------------------------------ state
VARIABLES
  currentSentenceId,   \* let currentSentenceId
  stateSentenceId,     \* stateDiv.dataset.sentenceId
  originalText,        \* originalContainer.textContent
  tokens,              \* the spans of sentenceContainer
  undoStack,           \* const undoStack: entries {span, original}
  editBoxDisplay,      \* #edit-box style.display
  sentenceEdit,        \* #sentence-edit value
  fetchInFlight,       \* GET /next-sentence/1 requests not yet resolved
  patchInFlight,       \* PATCH /sentence/:id requests not yet resolved
  lastOp,              \* history: the handler that ran last
  prevOp,              \* history: the handler that ran before it
  pre,                 \* history: tokens and stack before the last redact,
                       \*   entries dropped by the last render
  redactLog,           \* history: redactions of this rendering not undone
  lastReq,             \* history: the last PATCHes (two at most) sent since
                       \*   the tokens or the id last changed
  lastData,            \* history: the record the last handler was given
  rendered,            \* history: the words of the last render
  renderedFor          \* history: currentSentenceId as of the last render

vars == <<currentSentenceId, stateSentenceId, originalText, tokens, undoStack,
          editBoxDisplay, sentenceEdit, fetchInFlight, patchInFlight,
          lastOp, prevOp, pre, redactLog, lastReq, lastData, rendered,
          renderedFor>>

NoSnap == [set |-> FALSE, tokens |-> <<>>, undoStack |-> <<>>, dropped |-> 0]

Init ==
  /\ currentSentenceId = Null
  /\ stateSentenceId = Null
  /\ originalText = <<>>
  /\ tokens = <<>>
  /\ undoStack = <<>>
  /\ editBoxDisplay = "none"
  /\ sentenceEdit = <<>>
  /\ fetchInFlight = 1          \* window.onload has called loadNextSentence
  /\ patchInFlight = 0
  /\ lastOp = "loadNextSentence"
  /\ prevOp = "-"
  /\ pre = NoSnap
  /\ redactLog = <<>>
  /\ lastReq = <<>>
  /\ lastData = {}
  /\ rendered = <<>>
  /\ renderedFor = Null

\* --------------------------------------------------- renderEditableSentence
\* A render that forgets to clear the undo stack.
renderKeepsStack(text) ==
  /\ tokens' = RenderTokens(text)
  /\ undoStack' = undoStack

\* innerHTML = "", undoStack.length = 0, one span (and one " ") per word
renderEditableSentence(text) ==
  /\ tokens' = RenderTokens(text)
  /\ undoStack' = <<>>

\* ------------------------------------------------------------- redactWord
\* redactWord that leaves the click handler in place.
redactWordKeepsHandler(p) ==
  /\ undoStack' = Append(undoStack, [span |-> p, original |-> tokens[p].word])
  /\ tokens' = [tokens EXCEPT ![p].text = REDACT]

\* redactWord that records the text after overwriting it.
redactWordPushesAfter(p) ==
  /\ tokens' = [tokens EXCEPT ![p].text = REDACT, ![p].onclick = FALSE]
  /\ undoStack' = Append(undoStack, [span |-> p, original |-> tokens'[p].text])

\* push {span, original}; textContent = "[REDACT]"; onclick = null
redactWord(p) ==
  /\ undoStack' = Append(undoStack, [span |-> p, original |-> tokens[p].word])
  /\ tokens' = [tokens EXCEPT ![p].text = REDACT, ![p].onclick = FALSE]

\* ------------------------------------------------------------- undoRedact
\* an undo that puts the word back but not its click handler.
RestoredNoHandler(e) ==
  [text |-> e.original, word |-> e.original, onclick |-> FALSE]

\* span.textContent = original; span.onclick = () => redactWord(...)
Restored(e) == [text |-> e.original, word |-> e.original, onclick |-> TRUE]

\* undo that reads the top entry without removing it.
undoRedactPeeks ==
  IF Len(undoStack) = 0 THEN UNCHANGED <<tokens, undoStack>>
  ELSE LET e == undoStack[Len(undoStack)]
       IN /\ undoStack' = undoStack
          /\ tokens' = [tokens EXCEPT ![e.span] = Restored(e)]

\* undo that takes the oldest entry (shift) instead of the newest (pop).
undoRedactShifts ==
  IF Len(undoStack) = 0 THEN UNCHANGED <<tokens, undoStack>>
  ELSE LET e == Head(undoStack)
       IN /\ undoStack' = Tail(undoStack)
          /\ tokens' = [tokens EXCEPT ![e.span] = Restored(e)]

\* undo that, finding nothing to undo, rebuilds the tokens from the screen.
undoRedactRebuilds ==
  IF Len(undoStack) = 0
  THEN /\ tokens' = RenderTokens(CurrentText(tokens))
       /\ undoStack' = undoStack
  ELSE LET e == undoStack[Len(undoStack)]
       IN /\ undoStack' = SubSeq(undoStack, 1, Len(undoStack) - 1)
          /\ tokens' = [tokens EXCEPT ![e.span] = Restored(e)]

\* if (undoStack.length === 0) return; pop; restore text and handler
undoRedact ==
  IF Len(undoStack) = 0 THEN UNCHANGED <<tokens, undoStack>>
  ELSE LET e == undoStack[Len(undoStack)]
       IN /\ undoStack' = SubSeq(undoStack, 1, Len(undoStack) - 1)
          /\ tokens' = [tokens EXCEPT ![e.span] = Restored(e)]

\* ------------------------------------------------------------ the handlers
Session == <<currentSentenceId, stateSentenceId, originalText>>
Requests == <<fetchInFlight, patchInFlight>>
EditBox == <<editBoxDisplay, sentenceEdit>>

\* the handler before is recorded for the handlers whose effect is compared
\* with it, and for no other
TwoStep == {"undoRedact", "undoRedactEmpty", "markGood", "saveEdit",
            "loadResolved"}
Step(op) ==
  /\ lastOp' = op
  /\ prevOp' = IF op \in TwoStep THEN lastOp ELSE "-"
  /\ lastData' = {}

RenderOps == {"loadResolved", "saveEdit", "useOriginal"}
UndoOps == {"undoRedact", "undoRedactEmpty"}

Kept == <<rendered, renderedFor>>
Texts(toks) == [i \in DOMAIN toks |-> toks[i].text]

\* history of a handler that rebuilds the tokens
Rebuilt ==
  /\ redactLog' = <<>>
  /\ lastReq' = <<>>
  /\ rendered' = Texts(tokens')
  /\ renderedFor' = currentSentenceId'

\* a click handler that also refreshes the text in the edit box.
RedactWordRefreshesEdit(p) ==
  /\ p \in DOMAIN tokens
  /\ tokens[p].onclick
  /\ redactWord(p)
  /\ Step("redactWord")
  /\ pre' = [set |-> TRUE, tokens |-> tokens, undoStack |-> undoStack,
             dropped |-> 0]
  /\ redactLog' = Append(redactLog, [pos |-> p, text |-> tokens[p].text])
  /\ lastReq' = <<>>
  /\ sentenceEdit' = CurrentText(tokens')
  /\ UNCHANGED <<Session, Requests, editBoxDisplay, Kept>>

\* a click on the span at index p whose onclick is set
RedactWord(p) ==
  /\ p \in DOMAIN tokens
  /\ tokens[p].onclick
  /\ redactWord(p)
  /\ Step("redactWord")
  /\ pre' = [set |-> TRUE, tokens |-> tokens, undoStack |-> undoStack,
             dropped |-> 0]
  /\ redactLog' = Append(redactLog, [pos |-> p, text |-> tokens[p].text])
  /\ lastReq' = <<>>
  /\ UNCHANGED <<Session, Requests, EditBox, Kept>>

\* the undo button
UndoRedact ==
  /\ undoRedact
  /\ Step(IF Len(undoStack) = 0 THEN "undoRedactEmpty" ELSE "undoRedact")
  /\ pre' = IF lastOp = "redactWord" THEN pre
            ELSE IF lastOp \in RenderOps
            THEN [NoSnap EXCEPT !.dropped = pre.dropped]
            ELSE NoSnap
  /\ LET StillRedacted(e) ==
           e.pos \in DOMAIN tokens' /\ ~tokens'[e.pos].onclick
     IN redactLog' = SelectSeq(redactLog, StillRedacted)
  /\ lastReq' = IF tokens' = tokens THEN lastReq ELSE <<>>
  /\ UNCHANGED <<Session, Requests, EditBox, Kept>>

\* the edit button
EditSentence ==
  /\ editBoxDisplay' = "block"
  /\ sentenceEdit' = CurrentText(tokens)
  /\ Step("editSentence")
  /\ pre' = [set |-> TRUE, tokens |-> tokens, undoStack |-> undoStack,
             dropped |-> 0]
  /\ UNCHANGED <<Session, Requests, tokens, undoStack, redactLog,
                 lastReq, Kept>>

RECURSIVE CollapseSpaces(_)
CollapseSpaces(s) ==
  IF Len(s) < 2 THEN s
  ELSE IF s[1] = " " /\ s[2] = " " THEN CollapseSpaces(Tail(s))
  ELSE <<s[1]>> \o CollapseSpaces(Tail(s))

\* a saveEdit that also collapses runs of spaces in the value.
NewTextCollapsed(value) == CollapseSpaces(Trim(value))

\* a commit that takes the markers out of the text.
NewTextUnmarked(value) ==
  LET NotMarker(c) == c # REDACT[1] IN SelectSeq(Trim(value), NotMarker)

\* the trimmed value of the edit box that saveEdit renders
NewText(value) == Trim(value)

\* the save button; the user has left `value` in the edit box
SaveEdit(value) ==
  /\ UNCHANGED <<Session, Requests>>
  /\ sentenceEdit' = value
  /\ renderEditableSentence(NewText(value))
  /\ editBoxDisplay' = "none"
  /\ Step("saveEdit")
  /\ Rebuilt
  /\ pre' = IF lastOp = "editSentence" /\ value = sentenceEdit
            THEN [pre EXCEPT !.dropped = Len(undoStack)]
            ELSE [NoSnap EXCEPT !.dropped = Len(undoStack)]

\* a revert that renders the display as it is, untrimmed.
OriginalTextUntrimmed == originalText

\* document.getElementById("original-sentence").textContent.trim()
OriginalText == Trim(originalText)

\* the use-original button
UseOriginal ==
  /\ UNCHANGED <<Session, Requests, EditBox>>
  /\ renderEditableSentence(OriginalText)
  /\ Step("useOriginal")
  /\ Rebuilt
  /\ pre' = [NoSnap EXCEPT !.dropped = Len(undoStack)]

\* --------------------------------------------------------------- markGood
\* the catch handler of a submit that also drops the session.
markGoodCatchDropsSession ==
  /\ currentSentenceId' = Null
  /\ tokens' = <<>>
  /\ UNCHANGED <<stateSentenceId, originalText, undoStack>>

\* .catch(err => { console.error(err); showFeedback(failure) })
markGoodCatch == UNCHANGED <<Session, tokens, undoStack>>

\* .then(() => { showFeedback(success); button.disabled = false })
markGoodThen == UNCHANGED <<Session, tokens, undoStack>>

\* the PATCH that markGood sends
\* a request whose text is taken from the edit box instead of the tokens.
PatchRequestFromEditBox == [id |-> currentSentenceId,
                            final_sentence |-> Trim(sentenceEdit)]

\* fetch(`/sentence/${currentSentenceId}`, {method: "PATCH",
\*       body: JSON.stringify({final_sentence: finalText})})
PatchRequest == [id |-> currentSentenceId,
                 final_sentence |-> FinalText(tokens)]

\* the mark-good button
MarkGood ==
  /\ IF ~TruthyId(currentSentenceId)
     THEN /\ Step("markGoodAlert")          \* alert("No sentence loaded.")
          /\ UNCHANGED <<patchInFlight, lastReq>>
     ELSE /\ fetchInFlight + patchInFlight < MaxInFlight
          /\ patchInFlight' = patchInFlight + 1
          /\ lastReq' = IF lastReq = <<>> THEN <<PatchRequest>>
                        ELSE <<lastReq[Len(lastReq)], PatchRequest>>
          /\ Step("markGood")
  /\ pre' = NoSnap
  /\ UNCHANGED <<Session, tokens, undoStack, EditBox, fetchInFlight,
                 redactLog, Kept>>

\* a PATCH resolves with res.ok and a JSON body
PatchOk ==
  /\ patchInFlight > 0
  /\ patchInFlight' = patchInFlight - 1
  /\ markGoodThen
  /\ Step("patchOk")
  /\ pre' = NoSnap
  /\ UNCHANGED <<EditBox, fetchInFlight, redactLog, lastReq, Kept>>

\* a PATCH is rejected, or resolves with !res.ok or an unparsable body
PatchFailed ==
  /\ patchInFlight > 0
  /\ patchInFlight' = patchInFlight - 1
  /\ markGoodCatch
  /\ Step("patchFailed")
  /\ pre' = NoSnap
  /\ UNCHANGED <<EditBox, fetchInFlight, redactLog, lastReq, Kept>>

\* ------------------------------------------------------- loadNextSentence
\* window.onload and the next button: fetch("/next-sentence/1")
LoadNextSentence ==
  /\ fetchInFlight + patchInFlight < MaxInFlight
  /\ fetchInFlight' = fetchInFlight + 1
  /\ Step("loadNextSentence")
  /\ pre' = NoSnap
  /\ UNCHANGED <<Session, tokens, undoStack, EditBox, patchInFlight,
                 redactLog, lastReq, Kept>>

\* .then(data => { ... }) of a fetch that resolved with res.ok
\* a handler that takes the id and the tokens but leaves the original text.
loadThenKeepsOriginal(data) ==
  /\ currentSentenceId' = data.id
  /\ stateSentenceId' = data.id
  /\ originalText' = originalText
  /\ renderEditableSentence(Editable(data))

loadThen(data) ==
  /\ currentSentenceId' = data.id
  /\ stateSentenceId' = data.id
  /\ originalText' = data.original_sentence
  /\ renderEditableSentence(Editable(data))

LoadResolved(data) ==
  /\ fetchInFlight > 0
  /\ fetchInFlight' = fetchInFlight - 1
  /\ loadThen(data)
  /\ lastOp' = "loadResolved"
  /\ prevOp' = lastOp
  /\ lastData' = {data}
  /\ Rebuilt
  /\ pre' = [NoSnap EXCEPT !.dropped = Len(undoStack)]
  /\ UNCHANGED <<EditBox, patchInFlight>>

\* a catch handler that resets the page when no sentence came.
loadCatchResets ==
  /\ currentSentenceId' = Null
  /\ originalText' = <<>>
  /\ tokens' = <<>>
  /\ undoStack' = <<>>
  /\ UNCHANGED stateSentenceId

\* .catch(err => { console.error(err); alert("No more sentences ...") })
loadCatch == UNCHANGED <<Session, tokens, undoStack>>

\* the fetch is rejected, or resolves with !res.ok or an unparsable body
LoadFailed ==
  /\ fetchInFlight > 0
  /\ fetchInFlight' = fetchInFlight - 1
  /\ loadCatch
  /\ Step("loadFailed")
  /\ pre' = NoSnap
  /\ UNCHANGED <<EditBox, patchInFlight, redactLog, lastReq, Kept>>

\* ---------------------------------------------------------- specification
Next ==
  \/ \E p \in 1..(MaxLen + 3) : RedactWord(p)
  \/ UndoRedact
  \/ EditSentence
  \/ \E value \in TypedTexts \cup {sentenceEdit} : SaveEdit(value)
  \/ UseOriginal
  \/ MarkGood
  \/ PatchOk
  \/ PatchFailed
  \/ LoadNextSentence
  \/ \E data \in Records : LoadResolved(data)
  \/ LoadFailed

Spec == Init /\ [][Next]_vars

\* ------------------------------------------------------------------ claims
Redacted(p) == tokens[p].text = REDACT /\ ~tokens[p].onclick

\* C1: every entry of the undo history refers to a token of the current
\* rendering that is redacted: it shows [REDACT] and its click is disabled.
C1_HistoryIsRedacted ==
  \A i \in DOMAIN undoStack :
    /\ undoStack[i].span \in DOMAIN tokens
    /\ Redacted(undoStack[i].span)

\* an undo has popped one of three redactions, with the edit box open
C1_Witness ==
  /\ Len(undoStack) >= 2
  /\ lastOp = "undoRedact"
  /\ editBoxDisplay = "block"
  /\ currentSentenceId # Null

\* C2: undo is last-in-first-out: an undo restores the position redacted
\* most recently among those still redacted, to the text it showed before
\* that redaction, and changes no other token.
C2_UndoIsLifo ==
  [][lastOp' = "undoRedact" =>
       /\ redactLog # <<>>
       /\ LET top == redactLog[Len(redactLog)]
          IN /\ DOMAIN tokens' = DOMAIN tokens
             /\ tokens'[top.pos].text = top.text
             /\ tokens'[top.pos].onclick
             /\ \A q \in DOMAIN tokens \ {top.pos} : tokens'[q] = tokens[q]
             /\ redactLog' = SubSeq(redactLog, 1, Len(redactLog) - 1)]_vars

\* an undo has restored the third of three redactions, and the two that
\* stand were made in descending order of position
C2_Witness ==
  /\ lastOp = "undoRedact"
  /\ Len(redactLog) = 2
  /\ redactLog[1].pos > redactLog[2].pos

\* C3: redact(p) directly followed by undo() leaves every token (text and
\* activation) and the undo history as they were before the redact.
C3_RedactUndoIdentity ==
  (lastOp = "undoRedact" /\ prevOp = "redactWord") =>
    /\ pre.set
    /\ tokens = pre.tokens
    /\ undoStack = pre.undoStack

\* redact then undo of a word, with another redaction standing
C3_Witness ==
  /\ lastOp = "undoRedact"
  /\ prevOp = "redactWord"
  /\ undoStack # <<>>
  /\ \E p \in DOMAIN tokens : tokens[p].onclick /\ tokens[p].text # <<>>

\* C4: no position occurs more than once in the undo history, and the
\* history holds exactly the tokens whose click is disabled.
C4_NoDoubleRedaction ==
  /\ \A i, j \in DOMAIN undoStack :
       i # j => undoStack[i].span # undoStack[j].span
  /\ {undoStack[i].span : i \in DOMAIN undoStack}
       = {p \in DOMAIN tokens : ~tokens[p].onclick}

\* a word redacted, restored and redacted again; its neighbours redacted too
C4_Witness ==
  /\ lastOp = "redactWord"
  /\ Len(undoStack) = 3

\* C5: every render (a load that resolves, saveEdit, useOriginal) leaves
\* the undo history empty, and an undo called right after it changes nothing.
C5_RenderClearsHistory ==
  /\ [](lastOp \in RenderOps => undoStack = <<>>)
  /\ [][(lastOp \in RenderOps /\ lastOp' \in UndoOps) =>
          UNCHANGED <<tokens, undoStack>>]_vars

\* an undo right after a render that dropped two redactions
C5_Witness ==
  /\ lastOp = "undoRedactEmpty"
  /\ prevOp \in RenderOps
  /\ pre.dropped >= 2

\* C6: undo() on an empty history changes neither the session id, nor any
\* token, nor the original-text display, nor the history.
C6_UndoEmptyNoop ==
  [][(undoStack = <<>> /\ lastOp' \in UndoOps) =>
       UNCHANGED <<currentSentenceId, stateSentenceId, originalText, tokens,
                   undoStack>>]_vars

\* an undo on an empty history with a sentence loaded
C6_Witness ==
  /\ lastOp = "undoRedactEmpty"
  /\ tokens # <<>>
  /\ TruthyId(currentSentenceId)

\* C7 as claimed: while the edit box is open, redact and undo change
\* neither the tokens nor the undo history.
C7_EditModeBypassesTokens ==
  [][(editBoxDisplay = "block" /\ lastOp' \in {"redactWord"} \cup UndoOps) =>
       UNCHANGED <<tokens, undoStack>>]_vars

\* C7 as amended: while the edit box is open, redact and undo still act on
\* the tokens and the undo history; what they leave alone is the edit box,
\* which stays open with the text surfaced when it was opened.
C7_EditBoxUntouched ==
  [][(editBoxDisplay = "block" /\ lastOp' \in {"redactWord", "undoRedact"}) =>
       /\ UNCHANGED <<editBoxDisplay, sentenceEdit>>
       /\ tokens' # tokens
       /\ Len(undoStack') # Len(undoStack)]_vars

\* a redaction made with the edit box open: the box still shows the old text
C7_Witness ==
  /\ editBoxDisplay = "block"
  /\ lastOp = "redactWord"
  /\ sentenceEdit # CurrentText(tokens)

\* the text a resolved load renders, were the choice made by presence
ByPresence(d) ==
  IF d.final_sentence.present THEN d.final_sentence.value
  ELSE IF d.llm_sentence.present THEN d.llm_sentence.value
  ELSE d.original_sentence

\* the first of final_sentence, llm_sentence that is present and not empty
FirstNonEmpty(d) ==
  LET NonEmpty(f) == f.present /\ Len(f.value) > 0
      cands == SelectSeq(<<d.final_sentence, d.llm_sentence>>, NonEmpty)
  IN IF cands = <<>> THEN d.original_sentence ELSE cands[1].value

\* the tokens are the split of text t, none redacted
ShowsSplitOf(t) ==
  /\ Len(tokens) = Len(Split(t))
  /\ \A i \in DOMAIN tokens :
       tokens[i].text = Split(t)[i] /\ tokens[i].onclick

\* C8 as claimed: a resolved load renders final_sentence when present, else
\* llm_sentence when present, else original_sentence.
C8_LoadByPresence ==
  lastOp = "loadResolved" => \A d \in lastData : ShowsSplitOf(ByPresence(d))

\* C8 as amended: a resolved load renders final_sentence when present and
\* not empty, else llm_sentence when present and not empty, else
\* original_sentence; the tokens are the split of exactly that text.
C8_LoadByNonEmpty ==
  lastOp = "loadResolved" =>
    \A d \in lastData : ShowsSplitOf(FirstNonEmpty(d))

\* a load resolved with an empty final_sentence and a candidate text
C8_Witness ==
  /\ lastOp = "loadResolved"
  /\ \E d \in lastData :
       /\ d.final_sentence.present /\ d.final_sentence.value = <<>>
       /\ d.llm_sentence.present /\ d.llm_sentence.value # <<>>

\* C9: right after saveEdit, the text read back from the tokens (every
\* span's text and the separator after it, trimmed) is the trimmed text of
\* the edit box.
C9_CommitRoundTrip ==
  lastOp = "saveEdit" => CurrentText(tokens) = Trim(sentenceEdit)

\* a text with a run of two spaces was committed: the middle token is empty
C9_Witness ==
  /\ lastOp = "saveEdit"
  /\ Len(tokens) >= 3
  /\ \E i \in DOMAIN tokens : tokens[i].text = <<>>

\* C10: a PATCH that resolves, with success or failure, changes neither the
\* session id, nor the tokens, nor the undo history; two submits with no
\* change of the session in between send the same id and the same text.
C10_SubmitOutcomeKeepsSession ==
  /\ [][lastOp' \in {"patchOk", "patchFailed"} =>
          UNCHANGED <<currentSentenceId, stateSentenceId, originalText,
                      tokens, undoStack>>]_vars
  /\ [](Len(lastReq) = 2 => lastReq[1] = lastReq[2])

\* a submit failed and was sent again, with a redaction standing
C10_Witness ==
  /\ lastOp = "markGood"
  /\ prevOp = "patchFailed"
  /\ Len(lastReq) = 2
  /\ undoStack # <<>>

SessionState == <<currentSentenceId, stateSentenceId, originalText, tokens,
                  undoStack>>

\* C11: a load that fails (rejected, !res.ok, unparsable body) updates no
\* part of the session, neither when it is triggered nor when it ends in
\* the failure notification.
C11_FailedLoadKeepsSession ==
  [][lastOp' \in {"loadNextSentence", "loadFailed"} =>
       UNCHANGED SessionState]_vars

\* a load failed with a sentence loaded and a redaction standing
C11_Witness ==
  /\ lastOp = "loadFailed"
  /\ currentSentenceId # Null
  /\ originalText # <<>>
  /\ undoStack # <<>>

\* the displayed texts of the tokens, each followed by its separator, trimmed
RECURSIVE Concatenated(_)
Concatenated(toks) ==
  IF toks = <<>> THEN <<>>
  ELSE Concatenated(SubSeq(toks, 1, Len(toks) - 1))
         \o toks[Len(toks)].text \o <<" ">>

DisplayedText(toks) == Trim(Concatenated(toks))

SubmitStep == lastOp' \in {"markGood", "markGoodAlert"}

\* C12: submitFinal sends exactly when a session is active: with no id
\* loaded it sends nothing and changes no state; with an id loaded,
\* whatever its value, it sends one PATCH for that id carrying the trimmed
\* concatenation of the displayed token texts.
C12_SubmitSendsIffActive ==
  [][SubmitStep =>
       IF currentSentenceId = Null
       THEN UNCHANGED <<SessionState, EditBox, Requests>>
       ELSE /\ patchInFlight' = patchInFlight + 1
            /\ lastReq' # <<>>
            /\ lastReq'[Len(lastReq')] =
                 [id |-> currentSentenceId,
                  final_sentence |-> DisplayedText(tokens)]
            /\ UNCHANGED <<SessionState, fetchInFlight>>]_vars

\* the texts a record carries
RecordTexts(d) ==
  {d.original_sentence}
    \cup {f.value : f \in {g \in {d.llm_sentence, d.final_sentence} :
                            g.present}}

\* C13: after a load resolves, also as the second of two that were in
\* flight together, the id, the original-text display and the tokens are
\* all those of the record that resolved last and the undo stack is empty;
\* in no state does the id of one record stand with the original text of
\* another or with tokens rendered under another id.
C13_LastResolvedWins ==
  /\ lastOp = "loadResolved" =>
       \A d \in lastData :
         /\ currentSentenceId = d.id
         /\ stateSentenceId = d.id
         /\ originalText = d.original_sentence
         /\ \E t \in RecordTexts(d) : ShowsSplitOf(t)
         /\ undoStack = <<>>
  /\ currentSentenceId # Null =>
       /\ originalText = OriginalOf(currentSentenceId)
       /\ renderedFor = currentSentenceId
       /\ stateSentenceId = currentSentenceId

\* two loads were in flight together and have resolved one after the other
C13_Witness ==
  /\ lastOp = "loadResolved"
  /\ prevOp = "loadResolved"
  /\ fetchInFlight = 0
  /\ currentSentenceId = 0

\* what saveEdit leaves when the edit box holds text t: the split of the
\* trimmed text, nothing redacted, an empty undo stack
CommitEditOf(t) ==
  /\ tokens = RenderTokens(NewText(t))
  /\ undoStack = <<>>

\* C14: with a sentence loaded, the original-text display is the
\* original_sentence of the record whose id is current, whatever the order
\* in which loads resolved, and right after useOriginal the tokens and the
\* undo stack are what saveEdit of that original_sentence leaves.
C14_RevertIsCommitOfOriginal ==
  /\ currentSentenceId # Null =>
       originalText = OriginalOf(currentSentenceId)
  /\ lastOp = "useOriginal" /\ currentSentenceId # Null =>
       CommitEditOf(OriginalOf(currentSentenceId))

\* useOriginal ran on a record whose original text has whitespace at both
\* ends
C14_Witness ==
  /\ lastOp = "useOriginal"
  /\ currentSentenceId = 1
  /\ Trim(originalText) # originalText
  /\ pre.dropped > 0

\* how many times the marker occurs in a text
Markers(t) == Cardinality({i \in DOMAIN t : t[i] = REDACT[1]})

\* C15: editSentence changes neither the tokens nor the undo stack; the
\* text it puts in the edit box is the trimmed concatenation of the
\* displayed token texts, with a [REDACT] marker for every token now
\* redacted, and is the final_sentence markGood would send from that state.
C15_EditModeSurfacesDisplayed ==
  [][lastOp' = "editSentence" =>
       /\ UNCHANGED <<tokens, undoStack>>
       /\ editBoxDisplay' = "block"
       /\ sentenceEdit' = DisplayedText(tokens)
       /\ sentenceEdit' = PatchRequest.final_sentence
       /\ Markers(sentenceEdit') >= Len(undoStack)]_vars

\* edit mode was entered with a redaction standing
C15_Witness ==
  /\ lastOp = "editSentence"
  /\ undoStack # <<>>
  /\ Markers(sentenceEdit) > 0
  /\ Len(tokens) > 1

\* the argument of the render that ran last
RenderedText ==
  IF lastOp = "saveEdit" THEN Trim(sentenceEdit)
  ELSE IF lastOp = "useOriginal" THEN Trim(originalText)
  ELSE FirstNonEmpty(CHOOSE d \in lastData : TRUE)

Spaces(t) == Cardinality({i \in DOMAIN t : t[i] = " "})

\* C16: right after a render of text t there is one token per segment of t
\* between single spaces, empty segments included: spaces + 1 tokens, none
\* holding a space, which put back together with one space between them
\* give t; every token shows its own word and is activatable, and nothing
\* of the previous rendering or of its history is left.
C16_RenderOneTokenPerSegment ==
  lastOp \in RenderOps =>
    /\ Len(tokens) = Spaces(RenderedText) + 1
    /\ Concatenated(tokens) = RenderedText \o <<" ">>
    /\ \A i \in DOMAIN tokens :
         /\ Spaces(tokens[i].text) = 0
         /\ tokens[i].word = tokens[i].text
         /\ tokens[i].onclick
    /\ undoStack = <<>>

\* a text with a run of two spaces was rendered over tokens with a
\* redaction standing
C16_Witness ==
  /\ lastOp \in RenderOps
  /\ Len(tokens) = 3
  /\ tokens[2].text = <<>>
  /\ pre.dropped > 0

InFlight == fetchInFlight + patchInFlight

\* C17: no retries and no de-duplication: every trigger of a load issues
\* exactly one fetch, every submit with a sentence loaded issues exactly
\* one PATCH, also while other requests are in flight, and a request that
\* fails is followed by no request the user did not trigger.
C17_OneRequestPerTrigger ==
  [][/\ lastOp' = "loadNextSentence" =>
          /\ fetchInFlight' = fetchInFlight + 1
          /\ patchInFlight' = patchInFlight
     /\ SubmitStep /\ currentSentenceId # Null =>
          /\ patchInFlight' = patchInFlight + 1
          /\ fetchInFlight' = fetchInFlight
     /\ lastOp' \in {"loadFailed", "patchFailed"} =>
          InFlight' = InFlight - 1]_vars

\* C18: the PATCH a markGood sends carries the id and the text of the state
\* markGood ran in: the current id, the trimmed concatenation of the tokens
\* then displayed, and those tokens were rendered under that same id,
\* whatever loads resolved before or between the submits.
C18_PatchFromOneState ==
  [][lastOp' = "markGood" =>
       LET sent == lastReq'[Len(lastReq')]
       IN /\ sent.id = currentSentenceId
          /\ sent.final_sentence = DisplayedText(tokens)
          /\ renderedFor = sent.id
          /\ originalText = OriginalOf(sent.id)]_vars

\* a submit right after a load resolved, with an earlier PATCH in flight
C18_Witness ==
  /\ lastOp = "markGood"
  /\ prevOp = "loadResolved"
  /\ patchInFlight = 2
  /\ lastReq # <<>>

RedactedNow == {p \in DOMAIN tokens : Redacted(p)}

\* C19: after any redactions and undos on a rendering, the undo stack holds
\* one entry per token now redacted and every undo that finds an entry
\* removes exactly one, so emptying the stack takes as many undos as there
\* are redacted tokens; once it is empty every token shows the text it was
\* rendered with and is activatable.
C19_UndoAllRestoresRender ==
  /\ [](Len(undoStack) = Cardinality(RedactedNow))
  /\ [](undoStack = <<>> =>
          /\ Texts(tokens) = rendered
          /\ \A p \in DOMAIN tokens : tokens[p].onclick)
  /\ [][lastOp' = "undoRedact" =>
          Len(undoStack') = Len(undoStack) - 1]_vars

\* two redactions were undone one after the other, down to an empty stack
C19_Witness ==
  /\ lastOp = "undoRedact"
  /\ prevOp = "undoRedact"
  /\ undoStack = <<>>
  /\ Len(tokens) >= 2

\* saveEdit has just committed the text editSentence surfaced, unchanged;
\* pre holds the tokens and the undo stack editSentence found
CommittedUnchanged ==
  lastOp = "saveEdit" /\ prevOp = "editSentence" /\ pre.set

\* the displayed texts with one space between them
Joined(toks) ==
  IF toks = <<>> THEN <<>>
  ELSE SubSeq(Concatenated(toks), 1, Len(Concatenated(toks)) - 1)

\* C20 as claimed: on a rendering of at least one token, editSentence
\* followed by saveEdit of the surfaced text unchanged leaves the displayed
\* token texts as they were, position by position, and every token
\* activatable with an empty undo stack.
C20_EditCommitKeepsTexts ==
  CommittedUnchanged /\ pre.tokens # <<>> =>
    /\ Texts(tokens) = Texts(pre.tokens)
    /\ \A p \in DOMAIN tokens : tokens[p].onclick
    /\ undoStack = <<>>

\* C20 as amended: the new token texts are the split of the trimmed
\* concatenation of the old displayed texts; they are the old texts,
\* position by position, whenever there was at least one token and the old
\* texts joined by single spaces neither begin nor end with whitespace.
\* Every token is then an ordinary activatable token showing its own word,
\* [REDACT] where the old token was redacted, and the undo stack is empty.
C20_EditCommitKeepsTrimmedTexts ==
  CommittedUnchanged =>
    /\ Texts(tokens) = Split(DisplayedText(pre.tokens))
    /\ pre.tokens # <<>> /\ Trim(Joined(pre.tokens)) = Joined(pre.tokens) =>
         /\ Texts(tokens) = Texts(pre.tokens)
         /\ \A p \in DOMAIN pre.tokens :
              ~pre.tokens[p].onclick => tokens[p].text = REDACT
    /\ \A p \in DOMAIN tokens :
         tokens[p].onclick /\ tokens[p].word = tokens[p].text
    /\ undoStack = <<>>

\* the surfaced text was committed unchanged over tokens with an empty
\* token in the middle and a redaction standing
C20_Witness ==
  /\ CommittedUnchanged
  /\ pre.undoStack # <<>>
  /\ Len(pre.tokens) = 3
  /\ pre.tokens[2].text = <<>>
  /\ \E p \in DOMAIN tokens : tokens[p].text = REDACT
====
